---- MODULE Spec2Model ----
(***************************************************************************)
(* Model of pkg/model/assets.go: the relational access layer over the      *)
(* tables asset, exchangesymbol, exchangepair and assetvolume, the redis   *)
(* cache of exchange pairs and the process-local memo map of GetAsset.     *)
(*                                                                         *)
(* Strings that the code concatenates, splits, formats or normalises are   *)
(* sequences of one-character strings (a literal prefix is one token);     *)
(* symbols and names, which the code only compares, are TLA+ strings.      *)
(* Statements are assumed to reach the database: transport failures are    *)
(* not modelled.                                                           *)
(***************************************************************************)
EXTENDS Integers, Sequences, FiniteSets, TLC

VARIABLES
    asset,           \* table asset: sequence of rows, in insertion order
    assetCache,      \* the package-level memo map of GetAsset (line 56)
    exchangesymbol,  \* table exchangesymbol
    exchangepair,    \* table exchangepair
    assetvolume,     \* table assetvolume
    redis,           \* redis key space: key -> stored value
    inserted,        \* history: the assets SetAsset has inserted successfully
    ret,             \* the last call: operation, arguments and results
    procs            \* the concurrent callers of GetAsset: position and locals

vars == <<asset, assetCache, exchangesymbol, exchangepair, assetvolume, redis, inserted, ret, procs>>

-----------------------------------------------------------------------------
(* Bounds of the model *)

MaxAssets == 2
MaxSymbols == 2
MaxPairs == 2

-----------------------------------------------------------------------------
(* Values *)

nil == "nil"
ErrNoRows == "no rows in result set"
ErrDuplicateKey == "duplicate key value violates unique constraint"
ErrSyntax == "syntax error at end of input"
ErrNotNull == "null value in column violates not-null constraint"
ErrRedisNil == "redis: nil"

\* SQL NULL in a nullable uuid column
NULL == <<"NULL">>

\* the zero value of dia.Asset
ZeroAsset == [Symbol |-> "", Name |-> "", Address |-> <<>>, Decimals |-> 0, Blockchain |-> <<>>]

-----------------------------------------------------------------------------
(* strconv.Itoa, strconv.Atoi and the uint8 conversion *)

DigitChars == <<"0", "1", "2", "3", "4", "5", "6", "7", "8", "9">>

RECURSIVE Itoa(_)
Itoa(n) ==
    IF n < 10 THEN <<DigitChars[n + 1]>>
    ELSE Itoa(n \div 10) \o <<DigitChars[(n % 10) + 1]>>

DigitVal(c) == (CHOOSE d \in 1..10 : DigitChars[d] = c) - 1

IsDigit(c) == \E d \in 1..10 : DigitChars[d] = c

RECURSIVE AtoiVal(_)
AtoiVal(s) ==
    IF s = <<>> THEN 0
    ELSE AtoiVal(SubSeq(s, 1, Len(s) - 1)) * 10 + DigitVal(s[Len(s)])

\* strconv.Atoi on an unsigned decimal text: the value, or a syntax error
Atoi(s) ==
    IF s # <<>> /\ \A i \in 1..Len(s) : IsDigit(s[i])
    THEN [val |-> AtoiVal(s), err |-> nil]
    ELSE [val |-> 0, err |-> "strconv.Atoi: invalid syntax"]

Uint8(n) == n % 256

-----------------------------------------------------------------------------
(* Inputs *)

AddrA == <<"a">>
AddrAB == <<"a", "_", "b">>
AddrHex == <<"0", "x", "0", "A">>
ChainC == <<"c">>
ChainBC == <<"b", "_", "c">>

A1 == [Symbol |-> "BTC", Name |-> "Bitcoin", Address |-> AddrA, Decimals |-> 8, Blockchain |-> ChainBC]
A2 == [Symbol |-> "BTC", Name |-> "Wrapped", Address |-> AddrAB, Decimals |-> 0, Blockchain |-> ChainC]
A3 == [Symbol |-> "", Name |-> "Bitcoin", Address |-> AddrA, Decimals |-> 255, Blockchain |-> ChainC]
A4 == [Symbol |-> "ETH", Name |-> "", Address |-> AddrA, Decimals |-> 18, Blockchain |-> ChainBC]
A5 == [Symbol |-> "ETH", Name |-> "Ether", Address |-> AddrHex, Decimals |-> 18, Blockchain |-> ChainC]

\* the assets callers insert; A1 and A4 share (address, blockchain)
Assets == {A1, A2, A3, A4, A5}

Addresses == {a.Address : a \in Assets}
Blockchains == {a.Blockchain : a \in Assets}
Symbols == {a.Symbol : a \in Assets}
Names == {a.Name : a \in Assets}

-----------------------------------------------------------------------------
(* asset table *)

\* asset_id has the default gen_random_uuid(): a fresh identifier per row
NewAssetID(table) == <<"u">> \o Itoa(Len(table) + 1)

\* UNIQUE (address, blockchain) of table asset
AssetUniqueViolation(table, address, blockchain) ==
    \E i \in 1..Len(table) : table[i].address = address /\ table[i].blockchain = blockchain

AssetRow(id, a) ==
    [asset_id |-> id, symbol |-> a.Symbol, name |-> a.Name, address |-> a.Address,
     decimals |-> Itoa(a.Decimals), blockchain |-> a.Blockchain]

First(S) == CHOOSE i \in S : \A j \in S : i <= j

SetAssetUpsert(a) ==
    /\ IF AssetUniqueViolation(asset, a.Address, a.Blockchain)
       THEN /\ asset' = [i \in 1..Len(asset) |->
                           IF asset[i].address = a.Address /\ asset[i].blockchain = a.Blockchain
                           THEN AssetRow(asset[i].asset_id, a) ELSE asset[i]]
            /\ inserted' = inserted
            /\ ret' = [op |-> "SetAsset", asset |-> a, err |-> nil]
       ELSE /\ Len(asset) < MaxAssets
            /\ asset' = Append(asset, AssetRow(NewAssetID(asset), a))
            /\ inserted' = inserted \cup {a}
            /\ ret' = [op |-> "SetAsset", asset |-> a, err |-> nil]
    /\ UNCHANGED <<procs, assetCache, exchangesymbol, exchangepair, assetvolume, redis>>

\* SetAsset stores an asset into postgres (a plain insert)
SetAsset(a) ==
    /\ IF AssetUniqueViolation(asset, a.Address, a.Blockchain)
       THEN /\ asset' = asset
            /\ inserted' = inserted
            /\ ret' = [op |-> "SetAsset", asset |-> a, err |-> ErrDuplicateKey]
       ELSE /\ Len(asset) < MaxAssets
            /\ asset' = Append(asset, AssetRow(NewAssetID(asset), a))
            /\ inserted' = inserted \cup {a}
            /\ ret' = [op |-> "SetAsset", asset |-> a, err |-> nil]
    /\ UNCHANGED <<procs, assetCache, exchangesymbol, exchangepair, assetvolume, redis>>

\* GetAssetID with the address as the only condition
GetAssetIDByAddress(a) ==
    LET m == {x \in 1..Len(asset) : asset[x].address = a.Address}
    IN  IF m = {} THEN [ID |-> <<>>, err |-> ErrNoRows]
        ELSE [ID |-> asset[First(m)].asset_id, err |-> nil]

\* GetAssetID: select asset_id where address=$1 and blockchain=$2, first row
GetAssetID(a) ==
    LET m == {x \in 1..Len(asset) : asset[x].address = a.Address /\ asset[x].blockchain = a.Blockchain}
    IN  IF m = {} THEN [ID |-> <<>>, err |-> ErrNoRows]
        ELSE [ID |-> asset[First(m)].asset_id, err |-> nil]

\* Scan of one row (symbol,name,address,decimals,blockchain) with the
\* decimals text parsed and narrowed to uint8
ScanAsset(r) ==
    LET d == Atoi(r.decimals)
    IN  [asset |-> [Symbol |-> r.symbol, Name |-> r.name, Address |-> r.address,
                    Decimals |-> IF d.err = nil THEN Uint8(d.val) ELSE 0,
                    Blockchain |-> r.blockchain],
         err |-> d.err]

\* the memo key of GetAsset
AssetKey(address, blockchain) == <<"GetAsset_">> \o address \o <<"_">> \o blockchain

\* GetAsset: memo lookup, else query, parse and memoise
GetAsset(address, blockchain) ==
    LET assetKey == AssetKey(address, blockchain)
        m == {x \in 1..Len(asset) : asset[x].address = address /\ asset[x].blockchain = blockchain}
        call == [op |-> "GetAsset", address |-> address, blockchain |-> blockchain]
    IN  /\ IF assetKey \in DOMAIN assetCache
           THEN /\ ret' = call @@ [asset |-> assetCache[assetKey], err |-> nil]
                /\ assetCache' = assetCache
           ELSE IF m = {}
           THEN /\ ret' = call @@ [asset |-> ZeroAsset, err |-> ErrNoRows]
                /\ assetCache' = assetCache
           ELSE LET s == ScanAsset(asset[First(m)])
                IN  /\ ret' = call @@ s
                    /\ assetCache' = IF s.err = nil
                                     THEN (assetKey :> s.asset) @@ assetCache
                                     ELSE assetCache
        /\ UNCHANGED <<procs, asset, exchangesymbol, exchangepair, assetvolume, redis, inserted>>

\* rows.Next/Scan loop that returns at the first row whose decimals do not
\* parse, with the assets appended so far
RECURSIVE ScanAssets(_, _)
ScanAssets(rows, acc) ==
    IF rows = <<>> THEN [assets |-> acc, err |-> nil]
    ELSE LET s == ScanAsset(Head(rows))
         IN  IF s.err # nil THEN [assets |-> acc, err |-> s.err]
             ELSE ScanAssets(Tail(rows), Append(acc, s.asset))

\* the loop of IdentifyAsset: a row whose decimals do not parse is skipped
RECURSIVE ScanAssetsSkipping(_, _)
ScanAssetsSkipping(rows, acc) ==
    IF rows = <<>> THEN [assets |-> acc, err |-> nil]
    ELSE LET s == ScanAsset(Head(rows))
         IN  ScanAssetsSkipping(Tail(rows), IF s.err # nil THEN acc ELSE Append(acc, s.asset))

GetAssetsBySymbolNameSymbolFirst(symbol, name) ==
    LET rows == IF symbol = "" THEN SelectSeq(asset, LAMBDA r : r.name = name)
                ELSE IF name = "" THEN SelectSeq(asset, LAMBDA r : r.symbol = symbol)
                ELSE SelectSeq(asset, LAMBDA r : r.symbol = symbol /\ r.name = name)
    IN  /\ ret' = [op |-> "GetAssetsBySymbolName", symbol |-> symbol, name |-> name]
                    @@ ScanAssets(rows, <<>>)
        /\ UNCHANGED <<procs, asset, assetCache, exchangesymbol, exchangepair, assetvolume, redis, inserted>>

\* GetAssetsBySymbolName: the query is chosen by name == "", else symbol == ""
GetAssetsBySymbolName(symbol, name) ==
    LET rows == IF name = "" THEN SelectSeq(asset, LAMBDA r : r.symbol = symbol)
                ELSE IF symbol = "" THEN SelectSeq(asset, LAMBDA r : r.name = name)
                ELSE SelectSeq(asset, LAMBDA r : r.symbol = symbol /\ r.name = name)
    IN  /\ ret' = [op |-> "GetAssetsBySymbolName", symbol |-> symbol, name |-> name]
                    @@ ScanAssets(rows, <<>>)
        /\ UNCHANGED <<procs, asset, assetCache, exchangesymbol, exchangepair, assetvolume, redis, inserted>>

-----------------------------------------------------------------------------
(* common.HexToAddress(s).Hex(), at an address width of one byte *)

HexLower == <<"0", "1", "2", "3", "4", "5", "6", "7", "8", "9", "a", "b", "c", "d", "e", "f">>
HexUpper == <<"0", "1", "2", "3", "4", "5", "6", "7", "8", "9", "A", "B", "C", "D", "E", "F">>

IsHexDigit(c) == \E d \in 1..16 : HexLower[d] = c \/ HexUpper[d] = c

HexIndex(c) == CHOOSE d \in 1..16 : HexLower[d] = c \/ HexUpper[d] = c

\* the zero address, as hex digits
ZeroAddressHex == <<"0", "0">>

Has0xPrefix(s) == Len(s) >= 2 /\ s[1] = "0" /\ s[2] \in {"x", "X"}

\* hex.DecodeString with the error dropped: the bytes decoded before the
\* first invalid character, each byte kept as two lower-case hex digits
RECURSIVE Hex2Bytes(_)
Hex2Bytes(s) ==
    IF Len(s) < 2 \/ ~IsHexDigit(s[1]) \/ ~IsHexDigit(s[2]) THEN <<>>
    ELSE <<HexLower[HexIndex(s[1])], HexLower[HexIndex(s[2])]>> \o Hex2Bytes(SubSeq(s, 3, Len(s)))

\* common.FromHex: prefix stripped, an odd number of digits padded with "0"
FromHex(s) ==
    LET t == IF Has0xPrefix(s) THEN SubSeq(s, 3, Len(s)) ELSE s
        u == IF Len(t) % 2 = 1 THEN <<"0">> \o t ELSE t
    IN  Hex2Bytes(u)

\* BytesToAddress: the last bytes kept, right-aligned over zeroes
BytesToAddress(b) ==
    LET w == Len(ZeroAddressHex)
        c == IF Len(b) > w THEN SubSeq(b, Len(b) - w + 1, Len(b)) ELSE b
    IN  SubSeq(ZeroAddressHex, 1, w - Len(c)) \o c

\* Address.Hex: "0x" and the checksummed digits; the checksum decides the
\* case of each letter and is taken here to raise every letter
AddressHex(b) == <<"0", "x">> \o [i \in 1..Len(b) |-> HexUpper[HexIndex(b[i])]]

HexToAddressHex(s) == AddressHex(BytesToAddress(FromHex(s)))

\* the conjuncts IdentifyAsset appends after "where "
IdentifyConds(a) ==
    (IF a.Symbol # "" THEN <<[col |-> "symbol", val |-> a.Symbol]>> ELSE <<>>)
    \o (IF a.Name # "" THEN <<[col |-> "name", val |-> a.Name]>> ELSE <<>>)
    \o (IF a.Address # <<>> THEN <<[col |-> "address", val |-> HexToAddressHex(a.Address)]>> ELSE <<>>)
    \o (IF a.Decimals # 0 THEN <<[col |-> "decimals", val |-> Itoa(a.Decimals)]>> ELSE <<>>)
    \o (IF a.Blockchain # <<>> THEN <<[col |-> "blockchain", val |-> a.Blockchain]>> ELSE <<>>)

\* IdentifyAsset: a query ending in "where " is a syntax error
IdentifyAsset(a) ==
    LET conds == IdentifyConds(a)
        rows == SelectSeq(asset, LAMBDA r : \A k \in 1..Len(conds) : r[conds[k].col] = conds[k].val)
    IN  /\ ret' = [op |-> "IdentifyAsset", candidate |-> a]
                    @@ (IF conds = <<>> THEN [assets |-> <<>>, err |-> ErrSyntax]
                        ELSE ScanAssetsSkipping(rows, <<>>))
        /\ UNCHANGED <<procs, asset, assetCache, exchangesymbol, exchangepair, assetvolume, redis, inserted>>

\* the filters callers pass to IdentifyAsset
Candidates ==
    Assets \cup {ZeroAsset,
                 [ZeroAsset EXCEPT !.Symbol = "BTC"],
                 [ZeroAsset EXCEPT !.Address = AddrHex],
                 [ZeroAsset EXCEPT !.Decimals = 18],
                 [ZeroAsset EXCEPT !.Name = "Bitcoin", !.Blockchain = ChainC]}

-----------------------------------------------------------------------------
(* exchangesymbol table *)

ExchE == <<"e">>
ExchEF == <<"e", "_", "f">>
Exchanges == {ExchE, ExchEF}
Tickers == {"BTC", "ETH"}

\* the identifiers callers pass to VerifyExchangeSymbol
AssetIDs == {<<"u">> \o Itoa(n) : n \in 1..MaxAssets}

\* column defaults of a new exchangesymbol row: unverified, no asset link
ExchangeSymbolDefaults == [verified |-> FALSE, asset_id |-> NULL]

IsExchangeSymbol(r, symbol, exchange) == r.symbol = symbol /\ r.exchange = exchange

SetExchangeSymbolUpsert(exchange, symbol) ==
    LET m == {x \in 1..Len(exchangesymbol) : IsExchangeSymbol(exchangesymbol[x], symbol, exchange)}
    IN  /\ IF m = {}
           THEN /\ Len(exchangesymbol) < MaxSymbols
                /\ exchangesymbol' = Append(exchangesymbol,
                        [symbol |-> symbol, exchange |-> exchange] @@ ExchangeSymbolDefaults)
           ELSE exchangesymbol' = [i \in 1..Len(exchangesymbol) |->
                        IF i \in m
                        THEN [symbol |-> symbol, exchange |-> exchange] @@ ExchangeSymbolDefaults
                        ELSE exchangesymbol[i]]
        /\ ret' = [op |-> "SetExchangeSymbol", exchange |-> exchange, symbol |-> symbol, err |-> nil]
        /\ UNCHANGED <<procs, asset, assetCache, exchangepair, assetvolume, redis, inserted>>

SetExchangeSymbolAlways(exchange, symbol) ==
    /\ Len(exchangesymbol) < MaxSymbols + 1
    /\ exchangesymbol' = Append(exchangesymbol,
            [symbol |-> symbol, exchange |-> exchange] @@ ExchangeSymbolDefaults)
    /\ ret' = [op |-> "SetExchangeSymbol", exchange |-> exchange, symbol |-> symbol, err |-> nil]
    /\ UNCHANGED <<procs, asset, assetCache, exchangepair, assetvolume, redis, inserted>>

\* SetExchangeSymbol: insert ... select $1,$2 where not exists (...)
SetExchangeSymbol(exchange, symbol) ==
    LET m == {x \in 1..Len(exchangesymbol) : IsExchangeSymbol(exchangesymbol[x], symbol, exchange)}
    IN  /\ IF m = {}
           THEN /\ Len(exchangesymbol) < MaxSymbols
                /\ exchangesymbol' = Append(exchangesymbol,
                        [symbol |-> symbol, exchange |-> exchange] @@ ExchangeSymbolDefaults)
           ELSE exchangesymbol' = exchangesymbol
        /\ ret' = [op |-> "SetExchangeSymbol", exchange |-> exchange, symbol |-> symbol, err |-> nil]
        /\ UNCHANGED <<procs, asset, assetCache, exchangepair, assetvolume, redis, inserted>>

\* the command tag postgres answers to an update of n rows: "UPDATE n"
CommandTag(n) == <<"U", "P", "D", "A", "T", "E", " ">> \o Itoa(n)

\* strings.Split(s, sep) for a one-character separator
RECURSIVE Split(_, _)
Split(s, sep) ==
    IF \A i \in 1..Len(s) : s[i] # sep THEN <<s>>
    ELSE LET k == First({i \in 1..Len(s) : s[i] = sep})
         IN  <<SubSeq(s, 1, k - 1)>> \o Split(SubSeq(s, k + 1, Len(s)), sep)

NumUpdatesFirstField(resp) == Split(resp, " ")[1]

\* respSlice[1] of the split command tag (Go indexes from 0)
NumUpdates(resp) == Split(resp, " ")[2]

\* VerifyExchangeSymbol: update set verified=true,asset_id=$1 where symbol=$2
\* and exchange=$3; success iff the command tag counts an update
VerifyExchangeSymbol(exchange, symbol, assetID) ==
    LET m == {x \in 1..Len(exchangesymbol) : IsExchangeSymbol(exchangesymbol[x], symbol, exchange)}
        resp == CommandTag(Cardinality(m))
        numUpdates == NumUpdates(resp)
    IN  /\ exchangesymbol' = [i \in 1..Len(exchangesymbol) |->
                IF i \in m
                THEN [exchangesymbol[i] EXCEPT !.verified = TRUE, !.asset_id = assetID]
                ELSE exchangesymbol[i]]
        /\ ret' = [op |-> "VerifyExchangeSymbol", exchange |-> exchange, symbol |-> symbol,
                   assetID |-> assetID, success |-> (numUpdates # <<"0">>), err |-> nil]
        /\ UNCHANGED <<procs, asset, assetCache, exchangepair, assetvolume, redis, inserted>>

\* the answer of GetExchangeSymbolAssetID over the rows of table: the first
\* matching row, a NULL asset_id read as the empty string
ExchangeSymbolAssetID(table, exchange, symbol) ==
    LET m == {x \in 1..Len(table) : IsExchangeSymbol(table[x], symbol, exchange)}
    IN  IF m = {} THEN [assetID |-> <<>>, verified |-> FALSE, err |-> ErrNoRows]
        ELSE LET r == table[First(m)]
             IN  [assetID |-> IF r.asset_id # NULL THEN r.asset_id ELSE <<>>,
                  verified |-> r.verified, err |-> nil]

GetExchangeSymbolAssetID(exchange, symbol) ==
    /\ ret' = [op |-> "GetExchangeSymbolAssetID", exchange |-> exchange, symbol |-> symbol]
                @@ ExchangeSymbolAssetID(exchangesymbol, exchange, symbol)
    /\ UNCHANGED <<procs, asset, assetCache, exchangesymbol, exchangepair, assetvolume, redis, inserted>>

-----------------------------------------------------------------------------
(* exchangepair table and the redis cache of exchange pairs *)

ForeignFG == <<"f", "_", "g">>
ForeignG == <<"g">>
ForeignNames == {ForeignFG, ForeignG}

\* the zero value of dia.ExchangePair
ZeroPair ==
    [Symbol |-> "", ForeignName |-> <<>>, Exchange |-> <<>>, Verified |-> FALSE,
     UnderlyingPair |-> [QuoteToken |-> ZeroAsset, BaseToken |-> ZeroAsset]]

P1 == [Symbol |-> "BTC-USD", ForeignName |-> ForeignFG, Exchange |-> ExchE, Verified |-> TRUE,
       UnderlyingPair |-> [QuoteToken |-> A1, BaseToken |-> A2]]
P2 == [Symbol |-> "XBT-USD", ForeignName |-> ForeignFG, Exchange |-> ExchE, Verified |-> FALSE,
       UnderlyingPair |-> [QuoteToken |-> A2, BaseToken |-> ZeroAsset]]
P3 == [Symbol |-> "BTC-USD", ForeignName |-> ForeignG, Exchange |-> ExchEF, Verified |-> TRUE,
       UnderlyingPair |-> [QuoteToken |-> ZeroAsset, BaseToken |-> A1]]

\* the pairs callers write, the exchange they write them for and the assets
\* their tokens name
Pairs == {P1, P2, P3}
PairExchanges == {ExchE}
PairAssets == {A1, A2}

\* column defaults of a new exchangepair row: unverified, no links
ExchangePairDefaults == [verified |-> FALSE, id_basetoken |-> NULL, id_quotetoken |-> NULL]

IsPairKey(r, foreignname, exchange) == r.foreignname = foreignname /\ r.exchange = exchange

IsPairTriple(r, symbol, foreignname, exchange) ==
    r.symbol = symbol /\ r.foreignname = foreignname /\ r.exchange = exchange

\* the key of an exchange pair in redis
PairCacheKey(exchange, foreignName) ==
    <<"keyExchangePairCache">> \o exchange \o <<"_">> \o foreignName

\* SetExchangePairCache: redis SET of the pair under its key, no expiry
SetExchangePairCache(store, exchange, pair) ==
    (PairCacheKey(exchange, pair.ForeignName) :> pair) @@ store

\* update <table> set <field>=<value> where foreignname=... and exchange=...
UpdatePairs(table, foreignname, exchange, field, value) ==
    [i \in 1..Len(table) |->
        IF IsPairKey(table[i], foreignname, exchange)
        THEN [table[i] EXCEPT ![field] = value]
        ELSE table[i]]

\* the insert of SetExchangePair: select $1,$2,$3 where not exists (the triple)
InsertPair(table, exchange, pair) ==
    IF \E i \in 1..Len(table) : IsPairTriple(table[i], pair.Symbol, pair.ForeignName, exchange)
    THEN table
    ELSE Append(table, [symbol |-> pair.Symbol, foreignname |-> pair.ForeignName,
                        exchange |-> exchange] @@ ExchangePairDefaults)

SetExchangePairStrict(exchange, pair, cache) ==
    LET t0 == InsertPair(exchangepair, exchange, pair)
        basetokenID == GetAssetID(pair.UnderlyingPair.BaseToken)
        quotetokenID == GetAssetID(pair.UnderlyingPair.QuoteToken)
        failed == basetokenID.err # nil \/ quotetokenID.err # nil
        t1 == UpdatePairs(t0, pair.ForeignName, exchange, "id_basetoken", basetokenID.ID)
        t2 == UpdatePairs(t1, pair.ForeignName, exchange, "id_quotetoken", quotetokenID.ID)
        t3 == UpdatePairs(t2, pair.ForeignName, exchange, "verified", pair.Verified)
    IN  /\ Len(t0) <= MaxPairs
        /\ exchangepair' = IF failed THEN t0 ELSE t3
        /\ redis' = IF cache /\ ~failed THEN SetExchangePairCache(redis, exchange, pair) ELSE redis
        /\ ret' = [op |-> "SetExchangePair", exchange |-> exchange, pair |-> pair,
                   cache |-> cache, err |-> IF failed THEN ErrNoRows ELSE nil]
        /\ UNCHANGED <<procs, asset, assetCache, exchangesymbol, assetvolume, inserted>>

\* SetExchangePair: conditional insert, then the updates of the base link,
\* the quote link (each only when its asset resolves) and the verified flag,
\* then the cache write
SetExchangePair(exchange, pair, cache) ==
    LET t0 == InsertPair(exchangepair, exchange, pair)
        basetokenID == GetAssetID(pair.UnderlyingPair.BaseToken).ID
        quotetokenID == GetAssetID(pair.UnderlyingPair.QuoteToken).ID
        t1 == IF basetokenID # <<>>
              THEN UpdatePairs(t0, pair.ForeignName, exchange, "id_basetoken", basetokenID)
              ELSE t0
        t2 == IF quotetokenID # <<>>
              THEN UpdatePairs(t1, pair.ForeignName, exchange, "id_quotetoken", quotetokenID)
              ELSE t1
        t3 == UpdatePairs(t2, pair.ForeignName, exchange, "verified", pair.Verified)
    IN  /\ Len(t0) <= MaxPairs
        /\ exchangepair' = t3
        /\ redis' = IF cache THEN SetExchangePairCache(redis, exchange, pair) ELSE redis
        /\ ret' = [op |-> "SetExchangePair", exchange |-> exchange, pair |-> pair,
                   cache |-> cache, err |-> nil]
        /\ UNCHANGED <<procs, asset, assetCache, exchangesymbol, assetvolume, inserted>>

\* GetAssetByID: select ... where asset_id=$1, first row, decimals parsed
GetAssetByID(table, assetID) ==
    LET m == {x \in 1..Len(table) : table[x].asset_id = assetID}
    IN  IF m = {} THEN [asset |-> ZeroAsset, err |-> ErrNoRows]
        ELSE ScanAsset(table[First(m)])

\* what GetExchangePair assembles from the row r its query returned
ExchangePairOfRow(table, r, exchange, foreignname) ==
    LET quotetoken == IF r.id_quotetoken # NULL THEN GetAssetByID(table, r.id_quotetoken)
                      ELSE [asset |-> ZeroAsset, err |-> nil]
        basetoken == IF r.id_basetoken # NULL THEN GetAssetByID(table, r.id_basetoken)
                     ELSE [asset |-> ZeroAsset, err |-> nil]
    IN  IF quotetoken.err # nil THEN [pair |-> ZeroPair, err |-> quotetoken.err]
        ELSE IF basetoken.err # nil THEN [pair |-> ZeroPair, err |-> basetoken.err]
        ELSE [pair |-> [Symbol |-> r.symbol, ForeignName |-> foreignname, Exchange |-> exchange,
                        Verified |-> r.verified,
                        UnderlyingPair |-> [QuoteToken |-> quotetoken.asset,
                                            BaseToken |-> basetoken.asset]],
              err |-> nil]

\* the answers GetExchangePair can give: the query has no ORDER BY, so
\* QueryRow scans whichever matching row the database returns first
ExchangePairAnswers(assets, pairs, exchange, foreignname) ==
    LET m == {x \in 1..Len(pairs) : IsPairKey(pairs[x], foreignname, exchange)}
    IN  IF m = {} THEN {[pair |-> ZeroPair, err |-> ErrNoRows]}
        ELSE {ExchangePairOfRow(assets, pairs[i], exchange, foreignname) : i \in m}

GetExchangePair(exchange, foreignname) ==
    /\ \E answer \in ExchangePairAnswers(asset, exchangepair, exchange, foreignname) :
          ret' = [op |-> "GetExchangePair", exchange |-> exchange, foreignname |-> foreignname]
                    @@ answer
    /\ UNCHANGED <<procs, asset, assetCache, exchangesymbol, exchangepair, assetvolume, redis, inserted>>

\* the answer of GetExchangePairCache over the redis key space store
ExchangePairCache(store, exchange, foreignName) ==
    LET key == PairCacheKey(exchange, foreignName)
    IN  IF key \in DOMAIN store THEN [pair |-> store[key], err |-> nil]
        ELSE [pair |-> ZeroPair, err |-> ErrRedisNil]

GetExchangePairCache(exchange, foreignName) ==
    /\ ret' = [op |-> "GetExchangePairCache", exchange |-> exchange, foreignName |-> foreignName]
                @@ ExchangePairCache(redis, exchange, foreignName)
    /\ UNCHANGED <<procs, asset, assetCache, exchangesymbol, exchangepair, assetvolume, redis, inserted>>

-----------------------------------------------------------------------------
(* assetvolume table.  A float64 volume is an integer count of 1e-7; the   *)
(* numeric column holds an integer count of 1e-6.                          *)

\* the volumes callers report: 0, 0.0000004, 0.0000016 and 123.45
Volumes == {0, 4, 16, 1234500000}

\* the digits of n left-padded with "0" to six places
RECURSIVE Pad6(_)
Pad6(d) == IF Len(d) >= 6 THEN d ELSE Pad6(<<"0">> \o d)

\* fmt.Sprintf("%f", volume): six decimal places, rounded half to even
FormatF(volume) ==
    LET q == volume \div 10
        r == volume % 10
        micro == IF r > 5 \/ (r = 5 /\ q % 2 = 1) THEN q + 1 ELSE q
    IN  Itoa(micro \div 1000000) \o <<".">> \o Pad6(Itoa(micro % 1000000))

\* the numeric value postgres reads from a decimal literal, in 1e-6
ParseNumeric(text) ==
    LET parts == Split(text, ".")
    IN  AtoiVal(parts[1]) * 1000000 + AtoiVal(parts[2])

\* the float64 scanned from a numeric value
ScanFloat(micro) == micro * 10

\* (select asset_id from asset where address=... and blockchain=...)
AssetIDSubquery(a) ==
    LET m == {x \in 1..Len(asset) : asset[x].address = a.Address /\ asset[x].blockchain = a.Blockchain}
    IN  IF m = {} THEN NULL ELSE asset[First(m)].asset_id

\* assetvolume.asset_id admits no NULL
VolumeRowAllowed(id) == id # NULL

\* SetAssetVolume24H: insert ... ON CONFLICT (asset_id) do UPDATE SET volume
SetAssetVolume24H(a, volume) ==
    LET id == AssetIDSubquery(a)
        value == ParseNumeric(FormatF(volume))
        m == {x \in 1..Len(assetvolume) : assetvolume[x].asset_id = id}
    IN  /\ IF ~VolumeRowAllowed(id)
           THEN /\ assetvolume' = assetvolume
                /\ ret' = [op |-> "SetAssetVolume24H", asset |-> a, volume |-> volume,
                           err |-> ErrNotNull]
           ELSE /\ assetvolume' =
                      IF m = {} THEN Append(assetvolume, [asset_id |-> id, volume |-> value])
                      ELSE [i \in 1..Len(assetvolume) |->
                               IF i \in m THEN [assetvolume[i] EXCEPT !.volume = value]
                               ELSE assetvolume[i]]
                /\ ret' = [op |-> "SetAssetVolume24H", asset |-> a, volume |-> volume,
                           err |-> nil]
        /\ UNCHANGED <<procs, asset, assetCache, exchangesymbol, exchangepair, redis, inserted>>

\* the answer of GetAssetVolume24H: the first row of assetvolume joined to
\* the asset with that address and blockchain
AssetVolume24H(assets, volumes, a) ==
    LET ids == {assets[x].asset_id : x \in {y \in 1..Len(assets) :
                    assets[y].address = a.Address /\ assets[y].blockchain = a.Blockchain}}
        m == {x \in 1..Len(volumes) : volumes[x].asset_id \in ids}
    IN  IF m = {} THEN [volume |-> 0, err |-> ErrNoRows]
        ELSE [volume |-> ScanFloat(volumes[First(m)].volume), err |-> nil]

GetAssetVolume24H(a) ==
    /\ ret' = [op |-> "GetAssetVolume24H", asset |-> a] @@ AssetVolume24H(asset, assetvolume, a)
    /\ UNCHANGED <<procs, asset, assetCache, exchangesymbol, exchangepair, assetvolume, redis, inserted>>

-----------------------------------------------------------------------------
(* paging over the asset table                                             *)

\* rdb.pagesize values and page numbers of the calls
PageSizes == {1, 2, 6}
MaxPage == 2

\* the columns GetPage selects
PageColumns == <<"symbol", "name", "address", "decimals", "blockchain">>

\* the rows of "LIMIT limit OFFSET offset" over table
LimitOffset(table, limit, offset) ==
    SubSeq(table, offset + 1, IF offset + limit < Len(table) THEN offset + limit ELSE Len(table))

\* rows.RawValues() after read calls of rows.Next() returned true: the
\* column values of the row read last, and none before the first read
RawValues(rows, read) ==
    IF read = 0 THEN <<>> ELSE [c \in 1..Len(PageColumns) |-> rows[read][PageColumns[c]]]

\* GetPage: the page at offset pagesize*pageNumber, then the test of the
\* raw values of the page and of a second query at offset skip+1, on which
\* Next is never called.  The decimals column is read as in ScanAsset; page
\* numbers stay below MaxPage, far from the wrap of the uint32 product.
GetPage(pagesize, pageNumber) ==
    LET skip == pagesize * pageNumber
        rows == LimitOffset(asset, pagesize, skip)
        s == ScanAssets(rows, <<>>)
        nextPageRows == LimitOffset(asset, pagesize, skip + 1)
        hasNextPage == IF s.err # nil THEN FALSE
                       ELSE IF Len(RawValues(rows, Len(rows))) < pagesize THEN FALSE
                       ELSE IF Len(RawValues(nextPageRows, 0)) = 0 THEN FALSE
                       ELSE TRUE
    IN  /\ ret' = [op |-> "GetPage", pagesize |-> pagesize, pageNumber |-> pageNumber,
                   assets |-> s.assets, hasNextPage |-> hasNextPage, err |-> s.err]
        /\ UNCHANGED <<procs, asset, assetCache, exchangesymbol, exchangepair, assetvolume, redis, inserted>>


-----------------------------------------------------------------------------
(* assets with recent volume, from the influx filters table                *)

\* a nil interface value in an influx row
Nil == <<"nil">>

\* the longest series of the results below
MaxValues == 3

\* influx rows (time, address, blockchain, value); a tag that is absent is nil
InfluxAddresses == {AddrA, AddrAB, Nil}
InfluxBlockchains == {ChainC, Nil}
InfluxRows == {<<1, address, blockchain, 4>> : address \in InfluxAddresses, blockchain \in InfluxBlockchains}
InfluxValues == UNION {[1..n -> InfluxRows] : n \in 0..MaxValues}

\* query results: no result, a result without series, a result whose first
\* series holds vs, and one with a second series, which is never read
InfluxResults ==
    {<<>>, <<[Series |-> <<>>]>>}
        \cup {<<[Series |-> <<[Values |-> vs]>>]>> : vs \in InfluxValues}
        \cup {<<[Series |-> <<[Values |-> vs], [Values |-> <<<<1, AddrHex, ChainBC, 4>>>>]>>]>> :
                 vs \in {v \in InfluxValues : Len(v) <= 1}}

\* the errors of a first series without values and of a result without series
ErrNoRecentAssets == "no recent assets with volume in influx"
ErrNoRecentAsset == "no recent asset with volume in influx"

\* the asset the loop appends: only Address and Blockchain are assigned
VolumeAsset(address, blockchain) == [ZeroAsset EXCEPT !.Address = address, !.Blockchain = blockchain]

\* the loop below without the uniqueMap test
RECURSIVE AllAssets(_, _, _)
AllAssets(values, quotedAssets, uniqueMap) ==
    IF values = <<>> THEN quotedAssets
    ELSE LET val == Head(values)
         IN  IF val[2] = Nil \/ val[3] = Nil
             THEN AllAssets(Tail(values), quotedAssets, uniqueMap)
             ELSE AllAssets(Tail(values), Append(quotedAssets, VolumeAsset(val[2], val[3])), uniqueMap)

\* the loop over the values of the first series: rows with a nil address or
\* blockchain are skipped, an asset not yet in uniqueMap is appended
RECURSIVE UniqueAssets(_, _, _)
UniqueAssets(values, quotedAssets, uniqueMap) ==
    IF values = <<>> THEN quotedAssets
    ELSE LET val == Head(values)
         IN  IF val[2] = Nil \/ val[3] = Nil
             THEN UniqueAssets(Tail(values), quotedAssets, uniqueMap)
             ELSE LET a == VolumeAsset(val[2], val[3])
                  IN  IF a \in uniqueMap
                      THEN UniqueAssets(Tail(values), quotedAssets, uniqueMap)
                      ELSE UniqueAssets(Tail(values), Append(quotedAssets, a), uniqueMap \cup {a})

\* GetAssetsWithVOLInflux on the result res of the query
GetAssetsWithVOLInflux(res) ==
    /\ ret' = [op |-> "GetAssetsWithVOLInflux", res |-> res] @@
              (IF Len(res) > 0 /\ Len(res[1].Series) > 0
               THEN IF Len(res[1].Series[1].Values) > 0
                    THEN [assets |-> UniqueAssets(res[1].Series[1].Values, <<>>, {}), err |-> nil]
                    ELSE [assets |-> <<>>, err |-> ErrNoRecentAssets]
               ELSE [assets |-> <<>>, err |-> ErrNoRecentAsset])
    /\ UNCHANGED <<procs, asset, assetCache, exchangesymbol, exchangepair, assetvolume, redis, inserted>>


-----------------------------------------------------------------------------
(* redis cache of assets, keyed by the primary key of the asset table      *)

\* GetAssetID as a call of its own
CallGetAssetID(a) ==
    /\ ret' = [op |-> "GetAssetID", asset |-> a] @@ GetAssetID(a)
    /\ UNCHANGED <<procs, asset, assetCache, exchangesymbol, exchangepair, assetvolume, redis, inserted>>

\* keyAssetCache + ID
AssetCacheKey(ID) == <<"keyAssetCache">> \o ID

IsAssetCacheKey(key) == key # <<>> /\ key[1] = "keyAssetCache"

\* GetKeyAsset that drops the error of GetAssetID
GetKeyAssetUnchecked(a) == [key |-> AssetCacheKey(GetAssetID(a).ID), err |-> nil]

\* GetKeyAsset: the cache key of an asset, or the error of GetAssetID
GetKeyAsset(a) ==
    LET r == GetAssetID(a)
    IN  IF r.err # nil THEN [key |-> <<>>, err |-> r.err]
        ELSE [key |-> AssetCacheKey(r.ID), err |-> nil]

\* SetAssetCache: redis SET of the asset under its key, no expiry
SetAssetCache(a) ==
    LET k == GetKeyAsset(a)
    IN  /\ redis' = IF k.err # nil THEN redis ELSE (k.key :> a) @@ redis
        /\ ret' = [op |-> "SetAssetCache", asset |-> a, err |-> k.err]
        /\ UNCHANGED <<procs, asset, assetCache, exchangesymbol, exchangepair, assetvolume, inserted>>

\* GetAssetCache: redis GET of keyAssetCache + assetID
GetAssetCache(assetID) ==
    LET key == AssetCacheKey(assetID)
    IN  /\ ret' = [op |-> "GetAssetCache", assetID |-> assetID] @@
                  (IF key \in DOMAIN redis THEN [asset |-> redis[key], err |-> nil]
                   ELSE [asset |-> ZeroAsset, err |-> ErrRedisNil])
        /\ UNCHANGED <<procs, asset, assetCache, exchangesymbol, exchangepair, assetvolume, redis, inserted>>

\* CountCache: the number of keys matching keyAssetCache*
CountCache ==
    /\ ret' = [op |-> "CountCache",
               count |-> Cardinality({key \in DOMAIN redis : IsAssetCacheKey(key)}), err |-> nil]
    /\ UNCHANGED <<procs, asset, assetCache, exchangesymbol, exchangepair, assetvolume, redis, inserted>>


-----------------------------------------------------------------------------
(* GetAsset called from several goroutines: the memo map is a plain Go map *)
(* and each access to it is a step of its own                              *)

NumProcs == 2
Procs == 1..NumProcs

\* the assets of the concurrent runs and the keys their callers ask for
RaceAssets == {A1, A2}
RaceKeys == {<<a.Address, a.Blockchain>> : a \in RaceAssets}

\* a caller outside GetAsset
Idle == [pc |-> "idle", address |-> <<>>, blockchain |-> <<>>, asset |-> ZeroAsset]

\* one caller reads or writes the map while another writes it
Race ==
    \E p, q \in Procs :
        p # q /\ procs[p].pc = "writing" /\ procs[q].pc \in {"reading", "writing"}

\* entry of GetAsset: assetKey is computed from the arguments
Call(p, address, blockchain) ==
    /\ procs[p].pc = "idle"
    /\ procs' = [procs EXCEPT ![p] = [pc |-> "lookup", address |-> address,
                                      blockchain |-> blockchain, asset |-> ZeroAsset]]
    /\ UNCHANGED <<asset, assetCache, exchangesymbol, exchangepair, assetvolume, redis, inserted, ret>>

\* the read of assetCache[assetKey] begins; nothing makes it wait
BeginLookup(p) ==
    /\ procs[p].pc = "lookup"
    /\ procs' = [procs EXCEPT ![p].pc = "reading"]
    /\ UNCHANGED <<asset, assetCache, exchangesymbol, exchangepair, assetvolume, redis, inserted, ret>>

\* the read ends: a found entry is returned, else the query follows
EndLookup(p) ==
    LET assetKey == AssetKey(procs[p].address, procs[p].blockchain)
    IN  /\ procs[p].pc = "reading"
        /\ IF assetKey \in DOMAIN assetCache
           THEN /\ ret' = [op |-> "GetAsset", address |-> procs[p].address,
                           blockchain |-> procs[p].blockchain,
                           asset |-> assetCache[assetKey], err |-> nil]
                /\ procs' = [procs EXCEPT ![p] = Idle]
           ELSE /\ ret' = ret
                /\ procs' = [procs EXCEPT ![p].pc = "query"]
        /\ UNCHANGED <<asset, assetCache, exchangesymbol, exchangepair, assetvolume, redis, inserted>>

\* QueryRow, Scan and Atoi: an error is returned, an asset goes on to the store
QueryAsset(p) ==
    LET m == {x \in 1..Len(asset) : asset[x].address = procs[p].address
                                      /\ asset[x].blockchain = procs[p].blockchain}
        call == [op |-> "GetAsset", address |-> procs[p].address, blockchain |-> procs[p].blockchain]
        s == IF m = {} THEN [asset |-> ZeroAsset, err |-> ErrNoRows] ELSE ScanAsset(asset[First(m)])
    IN  /\ procs[p].pc = "query"
        /\ IF s.err # nil
           THEN /\ ret' = call @@ s
                /\ procs' = [procs EXCEPT ![p] = Idle]
           ELSE /\ ret' = ret
                /\ procs' = [procs EXCEPT ![p].pc = "store", ![p].asset = s.asset]
        /\ UNCHANGED <<asset, assetCache, exchangesymbol, exchangepair, assetvolume, redis, inserted>>

\* a store that waits until no other caller is inside the map
BeginStoreExclusive(p) ==
    /\ procs[p].pc = "store"
    /\ \A q \in Procs \ {p} : procs[q].pc \notin {"reading", "writing"}
    /\ procs' = [procs EXCEPT ![p].pc = "writing"]
    /\ UNCHANGED <<asset, assetCache, exchangesymbol, exchangepair, assetvolume, redis, inserted, ret>>

\* the write of assetCache[assetKey] begins; nothing makes it wait
BeginStore(p) ==
    /\ procs[p].pc = "store"
    /\ procs' = [procs EXCEPT ![p].pc = "writing"]
    /\ UNCHANGED <<asset, assetCache, exchangesymbol, exchangepair, assetvolume, redis, inserted, ret>>

\* the write ends and GetAsset returns the asset
EndStore(p) ==
    /\ procs[p].pc = "writing"
    /\ assetCache' = (AssetKey(procs[p].address, procs[p].blockchain) :> procs[p].asset) @@ assetCache
    /\ ret' = [op |-> "GetAsset", address |-> procs[p].address, blockchain |-> procs[p].blockchain,
               asset |-> procs[p].asset, err |-> nil]
    /\ procs' = [procs EXCEPT ![p] = Idle]
    /\ UNCHANGED <<asset, exchangesymbol, exchangepair, assetvolume, redis, inserted>>

\* the runtime may detect the concurrent map access and end the program
\* ("fatal error: concurrent map read and map write"), or not notice it
Fatal ==
    /\ Race
    /\ procs' = [p \in Procs |-> [procs[p] EXCEPT !.pc = "fatal"]]
    /\ ret' = [op |-> "fatal"]
    /\ UNCHANGED <<asset, assetCache, exchangesymbol, exchangepair, assetvolume, redis, inserted>>


-----------------------------------------------------------------------------

Init ==
    /\ asset = <<>>
    /\ assetCache = <<>>
    /\ exchangesymbol = <<>>
    /\ exchangepair = <<>>
    /\ assetvolume = <<>>
    /\ redis = <<>>
    /\ inserted = {}
    /\ ret = [op |-> "init"]
    /\ procs = [p \in Procs |-> Idle]

NextAsset ==
    \/ \E a \in Assets : SetAsset(a)
    \/ \E address \in Addresses, blockchain \in Blockchains : GetAsset(address, blockchain)
    \/ \E symbol \in Symbols, name \in Names : GetAssetsBySymbolName(symbol, name)
    \/ \E a \in Candidates : IdentifyAsset(a)

SpecAsset == Init /\ [][NextAsset]_vars

NextSymbol ==
    \/ \E exchange \in Exchanges, symbol \in Tickers : SetExchangeSymbol(exchange, symbol)
    \/ \E exchange \in Exchanges, symbol \in Tickers, assetID \in AssetIDs :
            VerifyExchangeSymbol(exchange, symbol, assetID)
    \/ \E exchange \in Exchanges, symbol \in Tickers : GetExchangeSymbolAssetID(exchange, symbol)

SpecSymbol == Init /\ [][NextSymbol]_vars

NextPair ==
    \/ \E a \in PairAssets : SetAsset(a)
    \/ \E exchange \in PairExchanges, pair \in Pairs, cache \in BOOLEAN :
            SetExchangePair(exchange, pair, cache)
    \/ \E exchange \in PairExchanges, foreignname \in ForeignNames :
            GetExchangePair(exchange, foreignname)
    \/ \E exchange \in PairExchanges, foreignName \in ForeignNames :
            GetExchangePairCache(exchange, foreignName)

SpecPair == Init /\ [][NextPair]_vars

NextVolume ==
    \/ \E a \in Assets : SetAsset(a)
    \/ \E a \in Assets, volume \in Volumes : SetAssetVolume24H(a, volume)
    \/ \E a \in Assets : GetAssetVolume24H(a)

SpecVolume == Init /\ [][NextVolume]_vars

NextPage ==
    \/ \E a \in Assets : SetAsset(a)
    \/ \E pagesize \in PageSizes, pageNumber \in 0..MaxPage : GetPage(pagesize, pageNumber)

SpecPage == Init /\ [][NextPage]_vars


NextInflux ==
    \E res \in InfluxResults : GetAssetsWithVOLInflux(res)

SpecInflux == Init /\ [][NextInflux]_vars


NextCache ==
    \/ \E a \in Assets : SetAsset(a)
    \/ \E a \in Assets : CallGetAssetID(a)
    \/ \E a \in Assets : SetAssetCache(a)
    \/ \E assetID \in AssetIDs : GetAssetCache(assetID)
    \/ CountCache

SpecCache == Init /\ [][NextCache]_vars


NextRace ==
    \/ \E a \in RaceAssets : SetAsset(a)
    \/ \E p \in Procs, k \in RaceKeys : Call(p, k[1], k[2])
    \/ \E p \in Procs : BeginLookup(p)
    \/ \E p \in Procs : EndLookup(p)
    \/ \E p \in Procs : QueryAsset(p)
    \/ \E p \in Procs : BeginStore(p)
    \/ \E p \in Procs : EndStore(p)
    \/ Fatal

SpecRace == Init /\ [][NextRace]_vars


\* the whole layer; the specifications above are its restrictions to the
\* operations of one area and the tables it reads
Next ==
    \/ NextAsset
    \/ NextSymbol
    \/ NextPair
    \/ NextVolume
    \/ NextPage
    \/ NextInflux
    \/ NextCache
    \/ NextRace

Spec == Init /\ [][Next]_vars

-----------------------------------------------------------------------------
(* C1: every asset inserted with SetAsset is returned by a later           *)
(* GetAsset(A.Address, A.Blockchain) without error and equal to A in all   *)
(* five fields.                                                            *)
C1_GetAssetReturnsInserted ==
    ret.op = "GetAsset" =>
        \A a \in inserted :
            (a.Address = ret.address /\ a.Blockchain = ret.blockchain)
                => (ret.err = nil /\ ret.asset = a)

HasExchangeSymbol(table, exchange, symbol) ==
    \E i \in 1..Len(table) : IsExchangeSymbol(table[i], symbol, exchange)

(* C3: VerifyExchangeSymbol returns (false, nil) and changes no row when   *)
(* no (symbol, exchange) row exists; when one exists it returns (true,     *)
(* nil) and GetExchangeSymbolAssetID then answers verified=true with the   *)
(* supplied assetID.                                                       *)
C3_VerifyStep ==
    ret'.op = "VerifyExchangeSymbol" =>
        IF HasExchangeSymbol(exchangesymbol, ret'.exchange, ret'.symbol)
        THEN /\ ret'.success = TRUE
             /\ ret'.err = nil
             /\ ExchangeSymbolAssetID(exchangesymbol', ret'.exchange, ret'.symbol)
                    = [assetID |-> ret'.assetID, verified |-> TRUE, err |-> nil]
        ELSE /\ ret'.success = FALSE
             /\ ret'.err = nil
             /\ exchangesymbol' = exchangesymbol

\* C3: every VerifyExchangeSymbol step answers (false, nil) and changes
\* nothing without a matching row, and (true, nil) with one, after which
\* GetExchangeSymbolAssetID answers verified=true and the supplied assetID
C3_VerifyExchangeSymbol == [][C3_VerifyStep]_vars

C3_Witness ==
    /\ ret.op = "VerifyExchangeSymbol"
    /\ ret.success = TRUE
    /\ ExchangeSymbolAssetID(exchangesymbol, ret.exchange, ret.symbol).assetID = ret.assetID
    /\ \E i \in 1..Len(exchangesymbol) : exchangesymbol[i].verified = FALSE

(* C4: a verified exchange symbol stays verified in every later state, and *)
(* only VerifyExchangeSymbol changes an existing exchangesymbol row.       *)
C4_MonotonicStep ==
    /\ Len(exchangesymbol') >= Len(exchangesymbol)
    /\ \A i \in 1..Len(exchangesymbol) :
        /\ exchangesymbol[i].verified =>
              \A j \in 1..Len(exchangesymbol') :
                 IsExchangeSymbol(exchangesymbol'[j], exchangesymbol[i].symbol, exchangesymbol[i].exchange)
                    => exchangesymbol'[j].verified
        /\ exchangesymbol'[i] # exchangesymbol[i] => ret'.op = "VerifyExchangeSymbol"

\* C4: no step un-verifies a verified exchange symbol, and every step that
\* changes an existing exchangesymbol row is a VerifyExchangeSymbol
C4_VerifiedIsMonotonic == [][C4_MonotonicStep]_vars

C4_Witness ==
    /\ ret.op = "SetExchangeSymbol"
    /\ \E i \in 1..Len(exchangesymbol) :
          /\ IsExchangeSymbol(exchangesymbol[i], ret.symbol, ret.exchange)
          /\ exchangesymbol[i].verified

(* C5: SetExchangeSymbol returns no error, leaves exactly one row for its  *)
(* (exchange, symbol), and a repeated call leaves the table, so the row's  *)
(* verified flag and asset link, as it was.                                *)
C5_IdempotentStep ==
    ret'.op = "SetExchangeSymbol" =>
        /\ ret'.err = nil
        /\ Cardinality({x \in 1..Len(exchangesymbol') :
              IsExchangeSymbol(exchangesymbol'[x], ret'.symbol, ret'.exchange)}) = 1
        /\ HasExchangeSymbol(exchangesymbol, ret'.exchange, ret'.symbol)
              => exchangesymbol' = exchangesymbol

\* C5: every SetExchangeSymbol step returns nil and leaves exactly one row
\* of its pair; on an existing pair it leaves the table as it was
C5_SetExchangeSymbolIdempotent == [][C5_IdempotentStep]_vars

C5_Witness ==
    /\ ret.op = "SetExchangeSymbol"
    /\ Len(exchangesymbol) = 2
    /\ \E i \in 1..Len(exchangesymbol) :
          /\ IsExchangeSymbol(exchangesymbol[i], ret.symbol, ret.exchange)
          /\ exchangesymbol[i].verified
          /\ exchangesymbol[i].asset_id # NULL

(* C2: the asset table holds at most one row per (address, blockchain);    *)
(* inserting an asset whose (address, blockchain) exists fails with a      *)
(* duplicate-key error and leaves the table unchanged.                     *)
C2_UniqueStep ==
    /\ \A i, j \in 1..Len(asset') :
          (asset'[i].address = asset'[j].address /\ asset'[i].blockchain = asset'[j].blockchain)
             => i = j
    /\ (ret'.op = "SetAsset"
        /\ AssetUniqueViolation(asset, ret'.asset.Address, ret'.asset.Blockchain))
          => (ret'.err = ErrDuplicateKey /\ asset' = asset)

\* C2: every step keeps (address, blockchain) unique in the asset table, and
\* a SetAsset of an existing key fails with the duplicate-key error and
\* changes no row
C2_AssetKeyUnique == [][C2_UniqueStep]_vars

C2_Witness ==
    /\ ret.op = "SetAsset"
    /\ ret.err = ErrDuplicateKey
    /\ \E i \in 1..Len(asset) :
          /\ asset[i].address = ret.asset.Address
          /\ asset[i].blockchain = ret.asset.Blockchain
          /\ asset[i].symbol # ret.asset.Symbol

\* the assets of the table, in table order
TableAssets == [i \in 1..Len(asset) |-> ScanAsset(asset[i]).asset]

(* C9 as stated: GetAssetsBySymbolName returns the assets matching every   *)
(* non-empty argument, so every asset when both are empty.                 *)
C9_MatchAllWhenBothEmpty ==
    ret.op = "GetAssetsBySymbolName" =>
        /\ ret.err = nil
        /\ ret.assets = SelectSeq(TableAssets,
              LAMBDA a : (ret.symbol # "" => a.Symbol = ret.symbol)
                         /\ (ret.name # "" => a.Name = ret.name))

(* C9 amended: as stated for a non-empty symbol or name; with both empty   *)
(* the result is the assets whose symbol is the empty string.              *)
C9_SymbolNameFilter ==
    ret.op = "GetAssetsBySymbolName" =>
        /\ ret.err = nil
        /\ ret.assets = SelectSeq(TableAssets,
              LAMBDA a : IF ret.symbol = "" /\ ret.name = "" THEN a.Symbol = ""
                         ELSE (ret.symbol # "" => a.Symbol = ret.symbol)
                              /\ (ret.name # "" => a.Name = ret.name))

C9_Witness ==
    /\ ret.op = "GetAssetsBySymbolName"
    /\ ret.symbol = "" /\ ret.name = ""
    /\ Len(ret.assets) = 1
    /\ Len(asset) = 2

(* C10: IdentifyAsset returns without error exactly the assets matching    *)
(* every non-default field of the candidate, every asset when all fields   *)
(* are default.                                                            *)
C10_IdentifyAssetMatchesNonDefault ==
    ret.op = "IdentifyAsset" =>
        /\ ret.err = nil
        /\ ret.assets = SelectSeq(TableAssets,
              LAMBDA a : /\ ret.candidate.Symbol # "" => a.Symbol = ret.candidate.Symbol
                         /\ ret.candidate.Name # "" => a.Name = ret.candidate.Name
                         /\ ret.candidate.Address # <<>> => a.Address = ret.candidate.Address
                         /\ ret.candidate.Decimals # 0 => a.Decimals = ret.candidate.Decimals
                         /\ ret.candidate.Blockchain # <<>> => a.Blockchain = ret.candidate.Blockchain)

\* the inserted asset that the row with identifier id holds
LinkedAsset(id) ==
    CHOOSE a \in inserted :
        \E i \in 1..Len(asset) :
            asset[i].asset_id = id /\ asset[i].address = a.Address
            /\ asset[i].blockchain = a.Blockchain

Resolvable(a) ==
    \E i \in 1..Len(asset) : asset[i].address = a.Address /\ asset[i].blockchain = a.Blockchain

\* the tokens of every answer of GetExchangePair are the assets its row links
C6_TokensFollowLinks ==
    \A i \in 1..Len(exchangepair) :
        IsPairKey(exchangepair[i], ret.pair.ForeignName, ret.exchange) =>
            LET g == ExchangePairOfRow(asset, exchangepair[i], ret.exchange, ret.pair.ForeignName)
            IN  /\ g.err = nil
                /\ g.pair.Verified = ret.pair.Verified
                /\ g.pair.UnderlyingPair.BaseToken =
                      IF exchangepair[i].id_basetoken # NULL
                      THEN LinkedAsset(exchangepair[i].id_basetoken) ELSE ZeroAsset
                /\ g.pair.UnderlyingPair.QuoteToken =
                      IF exchangepair[i].id_quotetoken # NULL
                      THEN LinkedAsset(exchangepair[i].id_quotetoken) ELSE ZeroAsset

(* C6: after SetExchangePair(ex, pair, true) returned nil,                 *)
(* GetExchangePairCache(ex, pair.ForeignName) returns the pair written and *)
(* GetExchangePair(ex, pair.ForeignName) returns the pair's symbol and     *)
(* verified flag with the tokens of the linked assets, zero when unlinked. *)
C6_ExchangePairRoundTrip ==
    (ret.op = "SetExchangePair" /\ ret.cache /\ ret.err = nil) =>
        /\ ExchangePairCache(redis, ret.exchange, ret.pair.ForeignName)
              = [pair |-> ret.pair, err |-> nil]
        /\ \A g \in ExchangePairAnswers(asset, exchangepair, ret.exchange, ret.pair.ForeignName) :
              g.err = nil /\ g.pair.Symbol = ret.pair.Symbol
        /\ C6_TokensFollowLinks

\* the round trip of C6 without the symbol of the answer
C6_RoundTripButSymbol ==
    (ret.op = "SetExchangePair" /\ ret.cache /\ ret.err = nil) =>
        /\ ExchangePairCache(redis, ret.exchange, ret.pair.ForeignName)
              = [pair |-> ret.pair, err |-> nil]
        /\ C6_TokensFollowLinks

(* C7: SetExchangePair returns nil also when a token does not resolve; the *)
(* row of the triple exists afterwards, a resolvable side is linked on     *)
(* every row of (foreignname, exchange), and an unresolvable side keeps    *)
(* the link it had.                                                        *)
C7_SideStep(token, field) ==
    LET m == {x \in 1..Len(asset) :
                asset[x].address = token.Address /\ asset[x].blockchain = token.Blockchain}
    IN  IF m # {}
        THEN \A j \in 1..Len(exchangepair') :
                IsPairKey(exchangepair'[j], ret'.pair.ForeignName, ret'.exchange)
                   => exchangepair'[j][field] = asset[First(m)].asset_id
        ELSE \A j \in 1..Len(exchangepair') :
                exchangepair'[j][field] =
                   IF j <= Len(exchangepair) THEN exchangepair[j][field] ELSE NULL

C7_BestEffortStep ==
    ret'.op = "SetExchangePair" =>
        /\ ret'.err = nil
        /\ \E j \in 1..Len(exchangepair') :
              IsPairTriple(exchangepair'[j], ret'.pair.Symbol, ret'.pair.ForeignName, ret'.exchange)
        /\ C7_SideStep(ret'.pair.UnderlyingPair.BaseToken, "id_basetoken")
        /\ C7_SideStep(ret'.pair.UnderlyingPair.QuoteToken, "id_quotetoken")

\* C7: every SetExchangePair step returns nil, leaves the row of the triple,
\* links each resolvable side and keeps the link of each unresolvable side
C7_SetExchangePairBestEffort == [][C7_BestEffortStep]_vars

C7_Witness ==
    /\ ret.op = "SetExchangePair"
    /\ ret.err = nil
    /\ ~Resolvable(ret.pair.UnderlyingPair.BaseToken)
    /\ Resolvable(ret.pair.UnderlyingPair.QuoteToken)
    /\ \E j \in 1..Len(exchangepair) :
          /\ IsPairTriple(exchangepair[j], ret.pair.Symbol, ret.pair.ForeignName, ret.exchange)
          /\ exchangepair[j].id_basetoken # NULL
          /\ exchangepair[j].id_quotetoken # NULL

\* the rows of assetvolume of the asset with a's address and blockchain
VolumeRows(a) == {x \in 1..Len(assetvolume) : assetvolume[x].asset_id = AssetIDSubquery(a)}

(* C8: after SetAssetVolume24H for an existing asset, assetvolume holds    *)
(* exactly one row of that asset and GetAssetVolume24H returns the volume  *)
(* of that call.                                                           *)
C8_VolumeUpsert ==
    (ret.op = "SetAssetVolume24H" /\ ret.err = nil) =>
        /\ Cardinality(VolumeRows(ret.asset)) = 1
        /\ AssetVolume24H(asset, assetvolume, ret.asset) = [volume |-> ret.volume, err |-> nil]

\* the upsert of C8 with the volume as the statement wrote it
C8_UpsertOfFormattedVolume ==
    (ret.op = "SetAssetVolume24H" /\ ret.err = nil) =>
        /\ Cardinality(VolumeRows(ret.asset)) = 1
        /\ AssetVolume24H(asset, assetvolume, ret.asset)
              = [volume |-> ScanFloat(ParseNumeric(FormatF(ret.volume))), err |-> nil]

(* C11: GetPage(pageNumber) returns the assets at offsets                  *)
(* [pagesize*pageNumber, pagesize*pageNumber + pagesize) of the table, and *)
(* hasNextPage is true exactly when the table holds more than              *)
(* pagesize*(pageNumber+1) assets.                                         *)
C11_GetPageHasNextPage ==
    (ret.op = "GetPage") =>
        /\ ret.err = nil
        /\ ret.assets = LimitOffset(TableAssets, ret.pagesize, ret.pagesize * ret.pageNumber)
        /\ ret.hasNextPage = (Len(asset) > ret.pagesize * (ret.pageNumber + 1))


\* the values of the first series of the result of the last call
C12_Values == ret.res[1].Series[1].Values

\* the rows of C12_Values that carry an address and a blockchain, and those
\* of them that are the first with their (address, blockchain)
C12_Pairs == {i \in 1..Len(C12_Values) : C12_Values[i][2] # Nil /\ C12_Values[i][3] # Nil}
C12_Firsts ==
    {i \in C12_Pairs : \A j \in C12_Pairs :
        j < i => <<C12_Values[j][2], C12_Values[j][3]>> # <<C12_Values[i][2], C12_Values[i][3]>>}

(* C12: GetAssetsWithVOLInflux returns the no-recent-volume error when the *)
(* result has no series or its first series has no values; otherwise it    *)
(* returns without error the (address, blockchain) pairs of the values of  *)
(* that series, each once, at the position of its first occurrence.        *)
C12_UniqueInFirstOccurrenceOrder ==
    (ret.op = "GetAssetsWithVOLInflux") =>
        IF ret.res = <<>> \/ ret.res[1].Series = <<>> \/ C12_Values = <<>>
        THEN ret.err \in {ErrNoRecentAsset, ErrNoRecentAssets}
        ELSE /\ ret.err = nil
             /\ Len(ret.assets) = Cardinality(C12_Firsts)
             /\ \A i \in C12_Firsts :
                    LET k == Cardinality({j \in C12_Firsts : j <= i})
                    IN  /\ ret.assets[k].Address = C12_Values[i][2]
                        /\ ret.assets[k].Blockchain = C12_Values[i][3]

\* a series with a repeated pair between two different ones
C12_Witness ==
    /\ ret.op = "GetAssetsWithVOLInflux"
    /\ ret.err = nil
    /\ Len(ret.assets) >= 2
    /\ Cardinality(C12_Firsts) < Cardinality(C12_Pairs)


(* C13: SetAssetCache for an asset that has no row in the asset table      *)
(* returns an error and leaves the cache unchanged, and every key of the   *)
(* asset cache is the prefix followed by the asset_id of a row.            *)
C13_CacheStep ==
    /\ (/\ ret'.op = "SetAssetCache"
        /\ ~AssetUniqueViolation(asset, ret'.asset.Address, ret'.asset.Blockchain))
          => (ret'.err # nil /\ redis' = redis)
    /\ \A key \in DOMAIN redis' :
          IsAssetCacheKey(key) =>
              \E x \in 1..Len(asset') : key = AssetCacheKey(asset'[x].asset_id)

C13_OnlyExistingAssetsCached == [][C13_CacheStep]_vars

\* a refused SetAssetCache while the cache holds an asset
C13_Witness ==
    /\ ret.op = "SetAssetCache"
    /\ ret.err # nil
    /\ ~AssetUniqueViolation(asset, ret.asset.Address, ret.asset.Blockchain)
    /\ \E key \in DOMAIN redis : IsAssetCacheKey(key)

(* C14: GetAssetID returns the not-found error and the empty identifier    *)
(* for an (address, blockchain) that was never inserted, and the asset_id  *)
(* of the row without error for one that was.                              *)
C14_GetAssetID ==
    (ret.op = "GetAssetID") =>
        IF \E a \in inserted : a.Address = ret.asset.Address /\ a.Blockchain = ret.asset.Blockchain
        THEN /\ ret.err = nil
             /\ \E x \in 1..Len(asset) :
                   /\ asset[x].address = ret.asset.Address
                   /\ asset[x].blockchain = ret.asset.Blockchain
                   /\ asset[x].asset_id = ret.ID
        ELSE ret.err = ErrNoRows /\ ret.ID = <<>>

\* the identifier of the row inserted second, with the first row sharing
\* its address
C14_Witness ==
    /\ ret.op = "GetAssetID"
    /\ ret.err = nil
    /\ Len(asset) >= 2
    /\ ret.ID = asset[2].asset_id
    /\ asset[1].address = asset[2].address


(* C16: whenever GetAsset(address, blockchain) returns without error, from *)
(* the memo or from the table, the asset has that address and blockchain   *)
(* and equals the row of the asset table for them, also for strings that   *)
(* contain the '_' of the memo key; a failed lookup leaves the memo as it  *)
(* was.                                                                    *)
C16_MemoStep ==
    (ret'.op = "GetAsset") =>
        IF ret'.err = nil
        THEN /\ ret'.asset.Address = ret'.address
             /\ ret'.asset.Blockchain = ret'.blockchain
             /\ \E x \in 1..Len(asset') :
                   /\ asset'[x].address = ret'.address
                   /\ asset'[x].blockchain = ret'.blockchain
                   /\ ScanAsset(asset'[x]).asset = ret'.asset
        ELSE assetCache' = assetCache

C16_GetAssetMatchesKey == [][C16_MemoStep]_vars


(* C15: the memo map of GetAsset has no synchronization: no caller ever    *)
(* waits at its lookup or at its store for another caller, so with two or  *)
(* more concurrent callers one can write the map while another reads or    *)
(* writes it.                                                              *)
C15_MemoAccessNeverWaits ==
    \A p \in Procs :
        /\ procs[p].pc = "lookup" => ENABLED BeginLookup(p)
        /\ procs[p].pc = "store" => ENABLED BeginStore(p)

\* the data race: a caller inside its store while another is inside its
\* lookup or its store
C15_Witness == Race


====
